---- MODULE Spec2Model ----
(***************************************************************************)
(* Order-flow / depth pipeline of DataPreparation.py and Analysis.py.      *)
(*                                                                         *)
(* Floating-point values are modelled as exact fractions [n, d]:           *)
(*   d > 0          the finite value n/d                                   *)
(*   d = 0, n = 0   not-a-number                                           *)
(*   d = 0, n = +-1 +-infinity                                             *)
(* so NaN propagation, skip-NaN reductions and division by zero follow the *)
(* IEEE/pandas rules the code relies on; rounding error is not modelled.   *)
(* A pandas Series is a sequence (position = row), a timestamp is a number *)
(* of model time units since midnight of the day's file.                   *)
(***************************************************************************)
EXTENDS Integers, Sequences, FiniteSets, TLC

VARIABLES
    quotes,        \* the quote table of one day (load_df_quotes)
    trades,        \* the trade table of one day (load_df_trades)
    days,          \* per date: what construct_OFI_TFI_dataframe does on that date's files
    files,         \* the precomputed signal and depth files finished_df reads
    beta_D_data,   \* the aligned report handed to get_graph
    args,          \* the arguments of the call made
    op,            \* the function called, "none" before the call
    ret            \* what the call returned

vars == <<quotes, trades, days, files, beta_D_data, args, op, ret>>

inputs == <<quotes, trades, days, files, beta_D_data>>

\* ---------------------------------------------------------------- bounds
MaxRows == 2
MaxPrice == 2
MaxAmount == 2
MaxTrades == 2
\* days per month of the model calendar
MonthDays == 2
\* interval rows of one day's signal table
MaxDayRows == 1
\* coarse windows per day (48 half hours in the program)
SlotsPerDay == 2
\* coarse windows in the precomputed signal file
MaxWindows == 2
MaxBeta == 2
\* rows of the report handed to get_graph
MaxReportRows == 3
\* width of a resampling bucket in model time units (delta_t)
DeltaT == 2

\* ------------------------------------------------------- float arithmetic
Num(x) == [n |-> x, d |-> 1]
NaN == [n |-> 0, d |-> 0]
Sgn(x) == IF x > 0 THEN 1 ELSE IF x < 0 THEN -1 ELSE 0
Abs(x) == IF x < 0 THEN -x ELSE x
IsNaN(a) == a.d = 0 /\ a.n = 0
IsFinite(a) == a.d > 0

FAdd(a, b) ==
    IF a.d = 0 \/ b.d = 0
    THEN IF a.d = 0 /\ b.d = 0
         THEN (IF a.n = b.n THEN a ELSE NaN)
         ELSE (IF a.d = 0 THEN a ELSE b)
    ELSE [n |-> a.n * b.d + b.n * a.d, d |-> a.d * b.d]

FNeg(a) == [n |-> -a.n, d |-> a.d]

FSub(a, b) == FAdd(a, FNeg(b))

FMul(a, b) ==
    IF a.d = 0 \/ b.d = 0
    THEN [n |-> Sgn(a.n) * Sgn(b.n), d |-> 0]
    ELSE [n |-> a.n * b.n, d |-> a.d * b.d]

FInv(a) ==
    IF a.d = 0
    THEN (IF a.n = 0 THEN NaN ELSE Num(0))
    ELSE IF a.n = 0 THEN [n |-> 1, d |-> 0]
         ELSE [n |-> Sgn(a.n) * a.d, d |-> Abs(a.n)]

FDiv(a, b) == FMul(a, FInv(b))

\* comparisons: every ordered comparison with NaN is False, != with NaN is True
FLt(a, b) == ~IsNaN(a) /\ ~IsNaN(b) /\
             (IF a.d = 0 \/ b.d = 0 THEN (a.d = 0 /\ a.n < 0 /\ ~(b.d = 0 /\ b.n < 0))
                                         \/ (b.d = 0 /\ b.n > 0 /\ ~(a.d = 0 /\ a.n > 0))
              ELSE a.n * b.d < b.n * a.d)
FEq(a, b) == ~IsNaN(a) /\ ~IsNaN(b) /\
             (IF a.d = 0 \/ b.d = 0 THEN a = b ELSE a.n * b.d = b.n * a.d)
FLe(a, b) == FLt(a, b) \/ FEq(a, b)
FGt(a, b) == FLt(b, a)
FGe(a, b) == FLe(b, a)
FNe(a, b) == ~FEq(a, b)

\* a boolean Series entering arithmetic: True -> 1, False -> 0
FBool(b) == IF b THEN Num(1) ELSE Num(0)

\* ------------------------------------------------------------ Series ops
\* Series.diff(): row - previous row, NaN at the first row
diff(s) == [i \in 1..Len(s) |-> IF i = 1 THEN NaN ELSE FSub(s[i], s[i - 1])]

\* Series.shift(1): the previous row's value, NaN at the first row
shift(s) == [i \in 1..Len(s) |-> IF i = 1 THEN NaN ELSE s[i - 1]]

RECURSIVE SumSkipNa(_)
\* Series.sum(): NaN entries are skipped, the empty sum is 0
SumSkipNa(s) ==
    IF Len(s) = 0 THEN Num(0)
    ELSE IF IsNaN(s[Len(s)]) THEN SumSkipNa(SubSeq(s, 1, Len(s) - 1))
         ELSE FAdd(SumSkipNa(SubSeq(s, 1, Len(s) - 1)), s[Len(s)])

RECURSIVE CountTrue(_)
\* (boolean Series).sum(): the number of True rows
CountTrue(s) ==
    IF Len(s) = 0 THEN 0
    ELSE CountTrue(SubSeq(s, 1, Len(s) - 1)) + (IF s[Len(s)] THEN 1 ELSE 0)

\* a column of a table as a float Series
Col(df, name) == [i \in 1..Len(df) |-> Num(df[i][name])]

\* ------------------------------------------------------------ quote data
Prices == 1..MaxPrice
\* quoted sizes: one lot or MaxAmount lots
Amounts == {1, MaxAmount}

QuoteContents == [ask_amount : Amounts, ask_price : Prices,
                  bid_price : Prices, bid_amount : Amounts]

QuoteRow(t, c) == [timestamp |-> t, ask_amount |-> c.ask_amount, ask_price |-> c.ask_price,
                   bid_price |-> c.bid_price, bid_amount |-> c.bid_amount]

\* a quote table as read from a file: rows one model time unit apart
load_df_quotes(c) == [i \in 1..Len(c) |-> QuoteRow(i - 1, c[i])]

\* ---------------------------------------------------------------- get_e_n
get_e_n_strict(data_frame) ==
    LET bd == diff(Col(data_frame, "bid_price"))
        ad == diff(Col(data_frame, "ask_price"))
        ba == Col(data_frame, "bid_amount")
        aa == Col(data_frame, "ask_amount")
    IN  [i \in 1..Len(data_frame) |->
            FAdd(FSub(FSub(FMul(FBool(FGt(bd[i], Num(0))), ba[i]),
                           FMul(FBool(FLt(bd[i], Num(0))), shift(ba)[i])),
                      FMul(FBool(FLt(ad[i], Num(0))), aa[i])),
                 FMul(FBool(FGt(ad[i], Num(0))), shift(aa)[i]))]

get_e_n_no_shift(data_frame) ==
    LET bd == diff(Col(data_frame, "bid_price"))
        ad == diff(Col(data_frame, "ask_price"))
        ba == Col(data_frame, "bid_amount")
        aa == Col(data_frame, "ask_amount")
    IN  [i \in 1..Len(data_frame) |->
            FAdd(FSub(FSub(FMul(FBool(FGe(bd[i], Num(0))), ba[i]),
                           FMul(FBool(FLe(bd[i], Num(0))), ba[i])),
                      FMul(FBool(FLe(ad[i], Num(0))), aa[i])),
                 FMul(FBool(FGe(ad[i], Num(0))), aa[i]))]

get_e_n(data_frame) ==
    LET bd == diff(Col(data_frame, "bid_price"))
        ad == diff(Col(data_frame, "ask_price"))
        ba == Col(data_frame, "bid_amount")
        aa == Col(data_frame, "ask_amount")
    IN  [i \in 1..Len(data_frame) |->
            FAdd(FSub(FSub(FMul(FBool(FGe(bd[i], Num(0))), ba[i]),
                           FMul(FBool(FLe(bd[i], Num(0))), shift(ba)[i])),
                      FMul(FBool(FLe(ad[i], Num(0))), aa[i])),
                 FMul(FBool(FGe(ad[i], Num(0))), shift(aa)[i]))]

\* ---------------------------------------------------------- get_avg_depth
get_avg_depth_same_signs(df) ==
    LET bd == diff(Col(df, "bid_price"))
        ad == diff(Col(df, "ask_price"))
        ba == Col(df, "bid_amount")
        aa == Col(df, "ask_amount")
        bidTerms == [i \in 1..Len(df) |->
                        FAdd(FMul(FBool(FLt(bd[i], Num(0))), ba[i]),
                             FMul(FBool(FGt(bd[i], Num(0))), shift(ba)[i]))]
        askTerms == [i \in 1..Len(df) |->
                        FAdd(FMul(FBool(FLt(ad[i], Num(0))), aa[i]),
                             FMul(FBool(FGt(ad[i], Num(0))), shift(aa)[i]))]
        bidCount == CountTrue([i \in 1..Len(df) |-> FNe(bd[i], Num(0))])
        askCount == CountTrue([i \in 1..Len(df) |-> FNe(ad[i], Num(0))])
    IN  FMul([n |-> 1, d |-> 2],
             FAdd(FDiv(SumSkipNa(bidTerms), Num(bidCount)),
                  FDiv(SumSkipNa(askTerms), Num(askCount))))

get_avg_depth(df) ==
    LET bd == diff(Col(df, "bid_price"))
        ad == diff(Col(df, "ask_price"))
        ba == Col(df, "bid_amount")
        aa == Col(df, "ask_amount")
        bidTerms == [i \in 1..Len(df) |->
                        FAdd(FMul(FBool(FLt(bd[i], Num(0))), ba[i]),
                             FMul(FBool(FGt(bd[i], Num(0))), shift(ba)[i]))]
        askTerms == [i \in 1..Len(df) |->
                        FAdd(FMul(FBool(FGt(ad[i], Num(0))), aa[i]),
                             FMul(FBool(FLt(ad[i], Num(0))), shift(aa)[i]))]
        bidCount == CountTrue([i \in 1..Len(df) |-> FNe(bd[i], Num(0))])
        askCount == CountTrue([i \in 1..Len(df) |-> FNe(ad[i], Num(0))])
    IN  FMul([n |-> 1, d |-> 2],
             FAdd(FDiv(SumSkipNa(bidTerms), Num(bidCount)),
                  FDiv(SumSkipNa(askTerms), Num(askCount))))

\* ------------------------------------------------------------ trade data
Sides == {"buy", "sell"}
TradeAmounts == 0..MaxAmount
\* timestamps of one day's file fall in two buckets
Times == 0..DeltaT

\* the rows of a file are ordered by time
IsOrdered(t) == \A i \in 1..(Len(t) - 1) : t[i] <= t[i + 1]

TradeContents == [side : Sides, amount : TradeAmounts]

\* a trade table as read from a file
load_df_trades(t, c) ==
    [i \in 1..Len(c) |-> [timestamp |-> t[i], side |-> c[i].side, amount |-> c[i].amount]]

\* ------------------------------------------------ get_signed_amount_traded
get_signed_amount_traded_abs(data_frame) ==
    [i \in 1..Len(data_frame) |-> Num(data_frame[i].amount)]

get_signed_amount_traded(data_frame) ==
    [i \in 1..Len(data_frame) |->
        IF data_frame[i].side = "buy" THEN Num(data_frame[i].amount)
        ELSE FMul(Num(-1), Num(data_frame[i].amount))]

\* ------------------------------------------- construct_OFI_TFI_dataframe
\* tick_size = 0.01
TickSize == [n |-> 1, d |-> 100]

get_mid_price(ask_price, bid_price, tick_size) ==
    FDiv(FAdd(ask_price, bid_price), FMul(Num(2), tick_size))

\* a time-indexed Series: the rows' timestamps with a value each
Indexed(df, values) == [i \in 1..Len(df) |-> [t |-> df[i].timestamp, v |-> values[i]]]

BucketOf(t) == t \div DeltaT

\* the bins resample() makes: every bucket from the first row's to the last row's
Bins(s) == IF Len(s) = 0 THEN {} ELSE BucketOf(s[1].t)..BucketOf(s[Len(s)].t)

\* the values of the rows of bucket k, in row order
Bucket(s, k) ==
    LET InK(r) == BucketOf(r.t) = k
        rows == SelectSeq(s, InK)
    IN  [i \in 1..Len(rows) |-> rows[i].v]

delta_lambda_second(x) == IF Len(x) >= 2 THEN FSub(x[2], x[1]) ELSE Num(0)

\* lambda x: x.iloc[-1] - x.iloc[0] if len(x) >= 2 else 0
delta_lambda(x) == IF Len(x) >= 2 THEN FSub(x[Len(x)], x[1]) ELSE Num(0)

construct_OFI_TFI_dataframe(quotes_df, trades_df, tick_size) ==
    LET mid == Indexed(quotes_df,
                       [i \in 1..Len(quotes_df) |->
                           get_mid_price(Num(quotes_df[i].ask_price),
                                         Num(quotes_df[i].bid_price), tick_size)])
        e_n == Indexed(quotes_df, get_e_n(quotes_df))
        signed == Indexed(trades_df, get_signed_amount_traded(trades_df))
    IN  [k \in Bins(mid) \cup Bins(e_n) \cup Bins(signed) |->
            [delta_midprice |-> IF k \in Bins(mid) THEN delta_lambda(Bucket(mid, k)) ELSE NaN,
             OFI |-> IF k \in Bins(e_n) THEN SumSkipNa(Bucket(e_n, k)) ELSE NaN,
             TFI |-> IF k \in Bins(signed) THEN SumSkipNa(Bucket(signed, k)) ELSE NaN]]

\* one day's quote file as the resampling sees it: rows ordered by time,
\* unit sizes, the ask one tick above the bid
DayQuotes(t, b) ==
    [i \in 1..Len(b) |-> [timestamp |-> t[i], ask_amount |-> 1, ask_price |-> b[i] + 1,
                          bid_price |-> b[i], bid_amount |-> 1]]

\* ------------------------------------------------------- date_range_list
\* a date string 'YYYY-MM-DD' of one year: its month and day fields; strings
\* of this format compare as these pairs do
Months == {11, 12}
FirstMonth == CHOOSE m \in Months : \A k \in Months : m <= k
DateStrs == [month : Months, day : 1..MonthDays]

\* datetime.strptime(s, '%Y-%m-%d').date(), as a day number
strptime(s) == (s.month - FirstMonth) * MonthDays + s.day

\* date.strftime('%Y-%m-%d')
strftime(o) == [month |-> FirstMonth + ((o - 1) \div MonthDays), day |-> ((o - 1) % MonthDays) + 1]

RECURSIVE DateLoop(_, _, _)
\* while current_date <= end_date: append; current_date += timedelta(days=1)
DateLoop(current_date, end_date, list_of_dates) ==
    IF current_date <= end_date
    THEN DateLoop(current_date + 1, end_date, Append(list_of_dates, strftime(current_date)))
    ELSE list_of_dates

date_range_list(start_date, end_date) == DateLoop(strptime(start_date), strptime(end_date), <<>>)

\* ---------------------------------------------------------------- output_df
\* what construct_OFI_TFI_dataframe(date) does: raises, or returns a table of
\* 1..MaxDayRows interval rows
DayOutcomes == [error : {"IndexError", "Other"}, rows : {0}] \cup [error : {"none"}, rows : 1..MaxDayRows]
NoDays == [s \in DateStrs |-> [error |-> "Other", rows |-> 0]]

\* the interval-signal table of a date whose files load
DayFrame(ds, datum) == [k \in 1..ds[datum].rows |-> [date |-> datum, bucket |-> k]]

RECURSIVE Concat(_)
\* pd.concat(results): the tables' rows one table after the other
Concat(results) == IF Len(results) = 0 THEN <<>> ELSE Head(results) \o Concat(Tail(results))

RECURSIVE OutputLoop(_, _, _, _)
\* for i in dates_list: try: results.append(construct...(i)) except IndexError / except
OutputLoop(ds, dates_list, results, printed) ==
    IF Len(dates_list) = 0 THEN [results |-> results, printed |-> printed]
    ELSE LET i == Head(dates_list)
         IN  CASE ds[i].error = "none" ->
                    OutputLoop(ds, Tail(dates_list), Append(results, DayFrame(ds, i)),
                               Append(printed, [msg |-> "done", date |-> i]))
               [] ds[i].error = "IndexError" ->
                    OutputLoop(ds, Tail(dates_list), results,
                               Append(printed, [msg |-> "Index error", date |-> i]))
               [] OTHER ->
                    OutputLoop(ds, Tail(dates_list), results,
                               Append(printed, [msg |-> "Other error", date |-> i]))

\* pd.concat raises ValueError on an empty list of tables
output_df(ds, start_date, end_date) ==
    LET loop == OutputLoop(ds, date_range_list(start_date, end_date), <<>>, <<>>)
    IN  IF Len(loop.results) = 0
        THEN [raised |-> "ValueError", value |-> <<>>, printed |-> loop.printed]
        ELSE [raised |-> "none", value |-> Concat(loop.results), printed |-> loop.printed]

\* ------------------------------------------------------- get_all_avg_depths
\* what load_df_quotes(date) and the depth computation on it do: the file is
\* missing, its table lacks a column get_avg_depth reads, or it is a quote
\* table; the tables are a day of one window with a price move and a day of
\* two windows without one
DayBooks == {DayQuotes(<<0, 1>>, <<1, MaxPrice>>), DayQuotes(<<0, DeltaT>>, <<1, 1>>)}
QuoteFiles == [error : {"FileNotFoundError", "KeyError"}, quotes : {<<>>}]
                 \cup [error : {"none"}, quotes : DayBooks]

\* load_df_quotes(i).resample(time_int).apply(lambda x: get_avg_depth(x)): one
\* depth per window from the first row's to the last row's
DayDepths(datum, df) ==
    IF Len(df) = 0 THEN <<>>
    ELSE LET lo == BucketOf(df[1].timestamp)
             hi == BucketOf(df[Len(df)].timestamp)
             InK(k) == LET In(r) == BucketOf(r.timestamp) = k IN SelectSeq(df, In)
         IN  [i \in 1..(hi - lo + 1) |->
                 [date |-> datum, bucket |-> lo + i - 1,
                  avg_depth |-> get_avg_depth(InK(lo + i - 1))]]

RECURSIVE DepthLoop_skip(_, _, _)
DepthLoop_skip(ds, dates_list, parts) ==
    IF Len(dates_list) = 0 THEN [raised |-> "none", parts |-> parts]
    ELSE LET i == Head(dates_list)
         IN  IF ds[i].error # "none"
             THEN DepthLoop_skip(ds, Tail(dates_list), parts)
             ELSE DepthLoop_skip(ds, Tail(dates_list), Append(parts, DayDepths(i, ds[i].quotes)))

RECURSIVE DepthLoop(_, _, _)
\* [load_df_quotes(i).resample(...).apply(...) for i in dates_list]: the
\* comprehension has no handler, the first date that fails ends it
DepthLoop(ds, dates_list, parts) ==
    IF Len(dates_list) = 0 THEN [raised |-> "none", parts |-> parts]
    ELSE LET i == Head(dates_list)
         IN  IF ds[i].error # "none"
             THEN [raised |-> ds[i].error, parts |-> <<>>]
             ELSE DepthLoop(ds, Tail(dates_list), Append(parts, DayDepths(i, ds[i].quotes)))

\* pd.concat raises ValueError on an empty list of series
get_all_avg_depths(ds, start_date, end_date) ==
    LET dates_list == date_range_list(start_date, end_date)
        loop == DepthLoop(ds, dates_list, <<>>)
    IN  IF loop.raised # "none" THEN [raised |-> loop.raised, value |-> <<>>]
        ELSE IF Len(loop.parts) = 0 THEN [raised |-> "ValueError", value |-> <<>>]
        ELSE [raised |-> "none", value |-> Concat(loop.parts)]

\* -------------------------------------------------------------- finished_df
\* A timestamp of a coarse window is its slot: the number of windows since
\* midnight of the first date; slot t lies on day number t \div SlotsPerDay + 1.
\* The signal file is its coarse windows in time order with, for each, its
\* slot, how the solver's fit of that window ends and the OFI slope it finds;
\* the depth file is a series over the slots lo..lo+len-1.
OkFits == [fit : {"ok"}, beta : 1..MaxBeta]
Fits == [fit : {"error"}, beta : {0}] \cup OkFits
NoFiles == [signal |-> [present |-> FALSE, windows |-> <<>>],
            depth |-> [present |-> FALSE, lo |-> 0, len |-> 0]]
DepthAt(t) == t + 1

\* read_csv(..., index_col=0, parse_dates=True) of the signal file whose first
\* row lies in slot lo: the Grouper's windows are the consecutive slots from lo
read_signal(lo, w) ==
    [i \in 1..Len(w) |-> [window |-> lo + i - 1, fit |-> w[i].fit, beta |-> w[i].beta]]

\* read_csv(..., index_col=0, parse_dates=True) of the depth file: the depth
\* series, slot -> avg_depth
DepthSeries(f) == [t \in f.lo..(f.lo + f.len - 1) |-> Num(DepthAt(t))]

RECURSIVE get_OLS_results_skip(_)
get_OLS_results_skip(dataset) ==
    IF Len(dataset) = 0 THEN [raised |-> "none", value |-> <<>>]
    ELSE LET rest == get_OLS_results_skip(Tail(dataset))
         IN  IF Head(dataset).fit = "error" THEN rest
             ELSE [raised |-> "none",
                   value |-> <<[window |-> Head(dataset).window,
                                 params |-> [Intercept |-> 0, OFI |-> Head(dataset).beta]]>>
                             \o rest.value]

RECURSIVE get_OLS_results(_)
\* groupby(Grouper(freq)).apply(ols(formula).fit): the windows' fits in order,
\* indexed by window, or the exception of the first window whose fit fails
get_OLS_results(dataset) ==
    IF Len(dataset) = 0 THEN [raised |-> "none", value |-> <<>>]
    ELSE IF Head(dataset).fit = "error" THEN [raised |-> "ValueError", value |-> <<>>]
    ELSE LET rest == get_OLS_results(Tail(dataset))
         IN  IF rest.raised # "none" THEN rest
             ELSE [raised |-> "none",
                   value |-> <<[window |-> Head(dataset).window,
                                 params |-> [Intercept |-> 0, OFI |-> Head(dataset).beta]]>>
                             \o rest.value]

RECURSIVE get_beta_coef(_, _)
\* for i in OLS_results: aux_list.append(i.params[Flow_imbalance]);
\* pd.Series(aux_list): the slopes by position, the windows are not carried over
get_beta_coef(OLS_results, Flow_imbalance) ==
    IF Len(OLS_results) = 0 THEN [raised |-> "none", value |-> <<>>]
    ELSE IF Flow_imbalance \notin DOMAIN Head(OLS_results).params
    THEN [raised |-> "KeyError", value |-> <<>>]
    ELSE LET rest == get_beta_coef(Tail(OLS_results), Flow_imbalance)
         IN  IF rest.raised # "none" THEN rest
             ELSE [raised |-> "none",
                   value |-> <<Num(Head(OLS_results).params[Flow_imbalance])>> \o rest.value]

\* the smallest and largest element of a non-empty set of slots
SetMin(S) == CHOOSE x \in S : \A y \in S : x <= y
SetMax(S) == CHOOSE x \in S : \A y \in S : x >= y

\* D.squeeze() of the one-column depth table gives the bare value instead of a
\* Series when the table has exactly one row
squeeze_is_scalar(f) == f.len = 1

create_dataframe_pad(beta_series, depth_series) ==
    IF DOMAIN depth_series = {} THEN [raised |-> "ValueError", value |-> <<>>]
    ELSE LET start_datetime == SetMin(DOMAIN depth_series)
             end_datetime == SetMax(DOMAIN depth_series)
             datetime_index == start_datetime..end_datetime
         IN  [raised |-> "none",
              value |-> [t \in datetime_index \cup DOMAIN depth_series |->
                           [beta_coef |-> IF t \in datetime_index
                                             /\ t - start_datetime + 1 <= Len(beta_series)
                                          THEN beta_series[t - start_datetime + 1] ELSE NaN,
                            avg_depth |-> IF t \in DOMAIN depth_series
                                          THEN depth_series[t] ELSE NaN]]]

\* pd.Series(values, index) raises ValueError when the lengths differ; an
\* empty depth series has no min/max to build the grid from
create_dataframe(beta_series, depth_series) ==
    IF DOMAIN depth_series = {} THEN [raised |-> "ValueError", value |-> <<>>]
    ELSE LET start_datetime == SetMin(DOMAIN depth_series)
             end_datetime == SetMax(DOMAIN depth_series)
             datetime_index == start_datetime..end_datetime
         IN  IF Len(beta_series) # Cardinality(datetime_index)
             THEN [raised |-> "ValueError", value |-> <<>>]
             ELSE [raised |-> "none",
                   value |-> [t \in datetime_index \cup DOMAIN depth_series |->
                                [beta_coef |-> IF t \in datetime_index
                                               THEN beta_series[t - start_datetime + 1] ELSE NaN,
                                 avg_depth |-> IF t \in DOMAIN depth_series
                                               THEN depth_series[t] ELSE NaN]]]

\* end_date > start_date on the date strings
StrGt(a, b) == a.month > b.month \/ (a.month = b.month /\ a.day > b.day)

\* df[start_date:end_date]: the rows of the days start_date..end_date
DaySlice(df, start_date, end_date) ==
    [t \in {u \in DOMAIN df : /\ strptime(start_date) <= (u \div SlotsPerDay) + 1
                              /\ (u \div SlotsPerDay) + 1 <= strptime(end_date)} |-> df[t]]

Raise(e) == [raised |-> e, none |-> FALSE, value |-> <<>>]

finished_df(fs, start_date, end_date, Flow_imbalance) ==
    IF ~fs.signal.present THEN Raise("FileNotFoundError")
    ELSE IF ~fs.depth.present THEN Raise("FileNotFoundError")
    ELSE LET D == DepthSeries(fs.depth)
             fitted == get_OLS_results(fs.signal.windows)
             beta == IF fitted.raised # "none" THEN fitted
                     ELSE get_beta_coef(fitted.value, Flow_imbalance)
         IN  IF beta.raised # "none" THEN Raise(beta.raised)
             ELSE IF StrGt(end_date, start_date)
             THEN IF squeeze_is_scalar(fs.depth) THEN Raise("AttributeError")
                  ELSE LET df == create_dataframe(beta.value, D)
                       IN  IF df.raised # "none" THEN Raise(df.raised)
                           ELSE [raised |-> "none", none |-> FALSE,
                                 value |-> DaySlice(df.value, start_date, end_date)]
             ELSE [raised |-> "none", none |-> TRUE, value |-> <<>>]

\* ---------------------------------------------------------------- get_graph
\* The report is a sequence of rows, row i at slot i - 1 (the first row at
\* midnight); a missing beta or depth is NaN, a slope may be negative, a
\* depth is one lot or MaxAmount lots.
BetaVals == {NaN} \cup {Num(v) : v \in (-1..MaxBeta) \ {0}}
DepthVals == {NaN, Num(1), Num(MaxAmount)}

\* index.strftime('%H:%M:%S'): the half hour of the day of slot t
TimeOfDay(t) == t % SlotsPerDay

\* list_of_halfhour_timestamps(): the labels of one day
list_of_halfhour_timestamps == 0..(SlotsPerDay - 1)

RECURSIVE SumOver(_, _)
\* the sum of the non-NaN values of f over the index set S
SumOver(f, S) ==
    IF S = {} THEN Num(0)
    ELSE LET x == CHOOSE y \in S : TRUE
         IN  IF IsNaN(f[x]) THEN SumOver(f, S \ {x}) ELSE FAdd(SumOver(f, S \ {x}), f[x])

\* Series.mean(): the mean of the non-NaN values, NaN when there is none
MeanOver(f, S) == FDiv(SumOver(f, S), Num(Cardinality({x \in S : ~IsNaN(f[x])})))

get_graph_one_global(df) ==
    LET time == [i \in 1..Len(df) |-> TimeOfDay(i - 1)]
        beta_coef == [i \in 1..Len(df) |-> df[i].beta_coef]
        avg_depth == [i \in 1..Len(df) |-> df[i].avg_depth]
        labels == {time[i] : i \in 1..Len(df)}
        global_depth == MeanOver(avg_depth, 1..Len(df))
        means_beta == [l \in labels |-> MeanOver(beta_coef, {i \in 1..Len(df) : time[i] = l})]
        means_depth == [l \in labels |-> MeanOver(avg_depth, {i \in 1..Len(df) : time[i] = l})]
    IN  [raised |-> IF Cardinality(labels) # Cardinality(list_of_halfhour_timestamps)
                    THEN "ValueError" ELSE "none",
         normalized_beta |-> [l \in labels |-> FDiv(means_beta[l], global_depth)],
         normalized_depth |-> [l \in labels |-> FDiv(means_depth[l], global_depth)]]

\* plt.plot(halfhour_list, normalized_beta) raises ValueError unless the
\* report has one group per label of the day
get_graph(df) ==
    LET time == [i \in 1..Len(df) |-> TimeOfDay(i - 1)]
        beta_coef == [i \in 1..Len(df) |-> df[i].beta_coef]
        avg_depth == [i \in 1..Len(df) |-> df[i].avg_depth]
        labels == {time[i] : i \in 1..Len(df)}
        global_depth == MeanOver(avg_depth, 1..Len(df))
        global_beta == MeanOver(beta_coef, 1..Len(df))
        means_beta == [l \in labels |-> MeanOver(beta_coef, {i \in 1..Len(df) : time[i] = l})]
        means_depth == [l \in labels |-> MeanOver(avg_depth, {i \in 1..Len(df) : time[i] = l})]
    IN  [raised |-> IF Cardinality(labels) # Cardinality(list_of_halfhour_timestamps)
                    THEN "ValueError" ELSE "none",
         normalized_beta |-> [l \in labels |-> FDiv(means_beta[l], global_beta)],
         normalized_depth |-> [l \in labels |-> FDiv(means_depth[l], global_depth)]]

\* ------------------------------------------------------------- operations
NoTrades == <<>>

InitQuotes ==
    /\ beta_D_data = <<>>
    /\ files = NoFiles
    /\ days = NoDays
    /\ args = <<>>
    /\ \E n \in 0..MaxRows : \E c \in [1..n -> QuoteContents] :
          quotes = load_df_quotes(c)
    /\ trades = NoTrades
    /\ op = "none"
    /\ ret = <<>>

Call_get_e_n ==
    /\ op = "none"
    /\ op' = "get_e_n"
    /\ ret' = get_e_n(quotes)
    /\ args' = <<>>
    /\ UNCHANGED inputs

Call_get_avg_depth ==
    /\ op = "none"
    /\ op' = "get_avg_depth"
    /\ ret' = get_avg_depth(quotes)
    /\ args' = <<>>
    /\ UNCHANGED inputs

SpecOFI == InitQuotes /\ [][Call_get_e_n]_vars

SpecDepth == InitQuotes /\ [][Call_get_avg_depth]_vars

\* one day's trade file as the resampling sees it: unit amounts
DayTrades(t, sd) == load_df_trades(t, [i \in 1..Len(sd) |-> [side |-> sd[i], amount |-> 1]])

InitTrades ==
    /\ beta_D_data = <<>>
    /\ files = NoFiles
    /\ days = NoDays
    /\ args = <<>>
    /\ quotes = <<>>
    /\ \E n \in 0..MaxTrades : \E t \in [1..n -> Times], c \in [1..n -> TradeContents] :
          IsOrdered(t) /\ trades = load_df_trades(t, c)
    /\ op = "none"
    /\ ret = <<>>

Call_get_signed_amount_traded ==
    /\ op = "none"
    /\ op' = "get_signed_amount_traded"
    /\ ret' = get_signed_amount_traded(trades)
    /\ args' = <<>>
    /\ UNCHANGED inputs

SpecTrades == InitTrades /\ [][Call_get_signed_amount_traded]_vars

InitConstruct ==
    /\ beta_D_data = <<>>
    /\ files = NoFiles
    /\ days = NoDays
    /\ args = <<>>
    /\ \E n \in 1..(MaxRows + 1) : \E t \in [1..n -> Times], b \in [1..n -> Prices] :
          IsOrdered(t) /\ quotes = DayQuotes(t, b)
    /\ \E n \in 1..(MaxTrades - 1) : \E t \in [1..n -> Times], sd \in [1..n -> Sides] :
          IsOrdered(t) /\ trades = DayTrades(t, sd)
    /\ op = "none"
    /\ ret = <<>>

Call_construct_OFI_TFI_dataframe ==
    /\ op = "none"
    /\ op' = "construct_OFI_TFI_dataframe"
    /\ ret' = construct_OFI_TFI_dataframe(quotes, trades, TickSize)
    /\ args' = <<>>
    /\ UNCHANGED inputs

SpecConstruct == InitConstruct /\ [][Call_construct_OFI_TFI_dataframe]_vars

InitOutput ==
    /\ beta_D_data = <<>>
    /\ files = NoFiles
    /\ quotes = <<>>
    /\ trades = <<>>
    /\ days \in [DateStrs -> DayOutcomes]
    /\ args = <<>>
    /\ op = "none"
    /\ ret = <<>>

Call_output_df ==
    /\ op = "none"
    /\ \E start_date, end_date \in DateStrs :
          /\ args' = [start_date |-> start_date, end_date |-> end_date]
          /\ ret' = output_df(days, start_date, end_date)
    /\ op' = "output_df"
    /\ UNCHANGED inputs

SpecOutput == InitOutput /\ [][Call_output_df]_vars

InitAllDepths ==
    /\ beta_D_data = <<>>
    /\ files = NoFiles
    /\ quotes = <<>>
    /\ trades = <<>>
    /\ days \in [DateStrs -> QuoteFiles]
    /\ args = <<>>
    /\ op = "none"
    /\ ret = <<>>

Call_get_all_avg_depths ==
    /\ op = "none"
    /\ \E start_date, end_date \in DateStrs :
          /\ args' = [start_date |-> start_date, end_date |-> end_date]
          /\ ret' = get_all_avg_depths(days, start_date, end_date)
    /\ op' = "get_all_avg_depths"
    /\ UNCHANGED inputs

SpecAllDepths == InitAllDepths /\ [][Call_get_all_avg_depths]_vars

InitFinished ==
    /\ beta_D_data = <<>>
    /\ quotes = <<>>
    /\ trades = <<>>
    /\ days = NoDays
    /\ \E sp, dp \in BOOLEAN :
          \E n \in 0..MaxWindows : \E w \in [1..n -> Fits] :
             \E slo, lo \in 0..(SlotsPerDay - 1), len \in 0..(MaxWindows + 1) :
                /\ (n = 0 => slo = 0)
                /\ (~sp => n = 0)
                /\ (~dp => (lo = 0 /\ len = 0))
                /\ files = [signal |-> [present |-> sp, windows |-> read_signal(slo, w)],
                            depth |-> [present |-> dp, lo |-> lo, len |-> len]]
    /\ args = <<>>
    /\ op = "none"
    /\ ret = <<>>

Call_finished_df ==
    /\ op = "none"
    /\ \E start_date, end_date \in DateStrs, Flow_imbalance \in {"OFI", "TFI"} :
          /\ args' = [start_date |-> start_date, end_date |-> end_date,
                      Flow_imbalance |-> Flow_imbalance]
          /\ ret' = finished_df(files, start_date, end_date, Flow_imbalance)
    /\ op' = "finished_df"
    /\ UNCHANGED inputs

SpecFinished == InitFinished /\ [][Call_finished_df]_vars

\* the beta sequence and the depth series as finished_df hands them over:
\* every window of the signal file fitted, the depth file of any length
InitCreate ==
    /\ beta_D_data = <<>>
    /\ quotes = <<>>
    /\ trades = <<>>
    /\ days = NoDays
    /\ \E n \in 0..(MaxWindows + 1) : \E w \in [1..n -> OkFits] :
          \E slo, lo \in 0..(SlotsPerDay - 1), len \in 0..(MaxWindows + 1) :
             /\ (n = 0 => slo = 0)
             /\ files = [signal |-> [present |-> TRUE, windows |-> read_signal(slo, w)],
                         depth |-> [present |-> TRUE, lo |-> lo, len |-> len]]
    /\ args = <<>>
    /\ op = "none"
    /\ ret = <<>>

Call_create_dataframe ==
    /\ op = "none"
    /\ LET beta == get_beta_coef(get_OLS_results(files.signal.windows).value, "OFI")
           D == DepthSeries(files.depth)
       IN  /\ beta.raised = "none"
           /\ args' = [beta_series |-> beta.value, depth_series |-> D]
           /\ ret' = create_dataframe(beta.value, D)
    /\ op' = "create_dataframe"
    /\ UNCHANGED inputs

SpecCreate == InitCreate /\ [][Call_create_dataframe]_vars

InitGraph ==
    /\ quotes = <<>>
    /\ trades = <<>>
    /\ days = NoDays
    /\ files = NoFiles
    /\ \E n \in 0..MaxReportRows :
          beta_D_data \in [1..n -> [beta_coef : BetaVals, avg_depth : DepthVals]]
    /\ args = <<>>
    /\ op = "none"
    /\ ret = <<>>

Call_get_graph ==
    /\ op = "none"
    /\ op' = "get_graph"
    /\ ret' = get_graph(beta_D_data)
    /\ args' = <<>>
    /\ UNCHANGED inputs

SpecGraph == InitGraph /\ [][Call_get_graph]_vars

\* ------------------------------------------------- net order flow (get_e_n)
BidUnchanged(i) == quotes[i].bid_price = quotes[i - 1].bid_price
AskUnchanged(i) == quotes[i].ask_price = quotes[i - 1].ask_price
BidUp(i) == quotes[i].bid_price > quotes[i - 1].bid_price
BidDown(i) == quotes[i].bid_price < quotes[i - 1].bid_price
AskUp(i) == quotes[i].ask_price > quotes[i - 1].ask_price
AskDown(i) == quotes[i].ask_price < quotes[i - 1].ask_price
LaterRows == 2..Len(quotes)

\* C1 (as stated): at a row after the first where neither bid_price nor
\* ask_price differs from the previous row, get_e_n's value is exactly 0.
C1_NoChangeIsZero ==
    op = "get_e_n" =>
        \A i \in LaterRows :
            (BidUnchanged(i) /\ AskUnchanged(i)) => ret[i] = Num(0)

\* C1 (amended): at a row after the first where neither price differs from the
\* previous row, get_e_n's value is the change of the bid size minus the
\* change of the ask size; it is 0 exactly when those two changes are equal.
C1_NoChangeIsSizeDelta ==
    op = "get_e_n" =>
        \A i \in LaterRows :
            (BidUnchanged(i) /\ AskUnchanged(i)) =>
                /\ ret[i].d = 1
                /\ ret[i].n = (quotes[i].bid_amount - quotes[i - 1].bid_amount)
                              - (quotes[i].ask_amount - quotes[i - 1].ask_amount)

\* C1 witness: get_e_n has run on a table with an unchanged-price row whose
\* bid size moved and whose ask size did not.
C1_Witness ==
    /\ op = "get_e_n"
    /\ \E i \in LaterRows :
          /\ BidUnchanged(i) /\ AskUnchanged(i)
          /\ quotes[i].bid_amount # quotes[i - 1].bid_amount
          /\ quotes[i].ask_amount = quotes[i - 1].ask_amount
          /\ ret[i].n # 0

\* the contributions the original claim C2 states for strict price moves
ClaimedBidPart(i) == IF BidUp(i) THEN quotes[i].bid_amount ELSE -quotes[i - 1].bid_amount
ClaimedAskPart(i) == IF AskDown(i) THEN quotes[i].ask_amount ELSE -quotes[i - 1].ask_amount

\* C2 (as stated): at a row after the first where both prices move strictly,
\* the value is +(current bid size) or -(previous bid size) for a bid rise or
\* fall, plus +(current ask size) or -(previous ask size) for an ask fall or rise.
C2_ClaimedSigns ==
    op = "get_e_n" =>
        \A i \in LaterRows :
            (~BidUnchanged(i) /\ ~AskUnchanged(i)) =>
                ret[i] = Num(ClaimedBidPart(i) + ClaimedAskPart(i))

\* the contributions of each side: the ask side enters with the opposite sign
BidPart(i) ==
    CASE BidUp(i) -> quotes[i].bid_amount
      [] BidDown(i) -> -quotes[i - 1].bid_amount
      [] OTHER -> quotes[i].bid_amount - quotes[i - 1].bid_amount
AskPart(i) ==
    CASE AskDown(i) -> -quotes[i].ask_amount
      [] AskUp(i) -> quotes[i - 1].ask_amount
      [] OTHER -> quotes[i - 1].ask_amount - quotes[i].ask_amount

\* C2 (amended): at every row after the first where a price moves strictly,
\* the value is a bid part plus an ask part: a bid rise gives +(current bid
\* size), a bid fall -(previous bid size), an ask fall -(current ask size),
\* an ask rise +(previous ask size); a side whose price did not move gives
\* its size change (bid: current - previous, ask: previous - current).
C2_SignedContributions ==
    op = "get_e_n" =>
        \A i \in LaterRows :
            (~BidUnchanged(i) \/ ~AskUnchanged(i)) =>
                ret[i] = Num(BidPart(i) + AskPart(i))

\* C2 witness: get_e_n has run on a table with a row where the bid rose and
\* the ask fell.
C2_Witness ==
    /\ op = "get_e_n"
    /\ \E i \in LaterRows : BidUp(i) /\ AskDown(i)

\* ------------------------------------------------- depth (get_avg_depth)
BidNeverChanges == \A i \in LaterRows : BidUnchanged(i)
AskNeverChanges == \A i \in LaterRows : AskUnchanged(i)

\* C8: get_avg_depth on a window whose bid price (or ask price) never changes
\* from one row to the next, empty or not, returns not-a-number.
C8_NoChangeIsNaN ==
    (op = "get_avg_depth" /\ (BidNeverChanges \/ AskNeverChanges)) => IsNaN(ret)

\* the table with bid and ask columns exchanged and every price move reversed
Mirror(df) ==
    [i \in 1..Len(df) |->
        [timestamp |-> df[i].timestamp,
         bid_price |-> MaxPrice + 1 - df[i].ask_price, bid_amount |-> df[i].ask_amount,
         ask_price |-> MaxPrice + 1 - df[i].bid_price, ask_amount |-> df[i].bid_amount]]

SameFloat(a, b) == (IsNaN(a) /\ IsNaN(b)) \/ FEq(a, b)

\* C9: get_avg_depth of the mirrored table (bid and ask columns exchanged,
\* price moves reversed) is the depth of the original table.
C9_MirrorInvariant ==
    op = "get_avg_depth" => SameFloat(get_avg_depth(Mirror(quotes)), ret)

\* C9 witness: get_avg_depth has run on a table that differs from its mirror,
\* with a bid rise and an unchanged ask, and returned a positive depth.
C9_Witness ==
    /\ op = "get_avg_depth"
    /\ Mirror(quotes) # quotes
    /\ \E i \in LaterRows : BidUp(i) /\ AskUnchanged(i)
    /\ IsFinite(ret) /\ ret.n > 0

\* ------------------------------------- resampling (construct_OFI_TFI_dataframe)
QuoteRowsIn(k) == {i \in 1..Len(quotes) : quotes[i].timestamp \div DeltaT = k}
FirstIn(k) == CHOOSE i \in QuoteRowsIn(k) : \A j \in QuoteRowsIn(k) : i <= j
LastIn(k) == CHOOSE i \in QuoteRowsIn(k) : \A j \in QuoteRowsIn(k) : i >= j
\* the mid-price in ticks: (ask + bid) / (2 * 0.01) = 50 * (ask + bid)
MidTicks(i) == 50 * (quotes[i].ask_price + quotes[i].bid_price)

\* C3: in the table construct_OFI_TFI_dataframe returns, a bucket holding
\* exactly one mid-price observation has delta_midprice = 0 and a bucket
\* holding two or more has delta_midprice = last - first observation.
C3_DeltaIsLastMinusFirst ==
    op = "construct_OFI_TFI_dataframe" =>
        \A k \in 0..BucketOf(DeltaT) :
            /\ Cardinality(QuoteRowsIn(k)) = 1 =>
                  (k \in DOMAIN ret /\ FEq(ret[k].delta_midprice, Num(0)))
            /\ Cardinality(QuoteRowsIn(k)) >= 2 =>
                  (k \in DOMAIN ret /\
                   FEq(ret[k].delta_midprice, Num(MidTicks(LastIn(k)) - MidTicks(FirstIn(k)))))

\* C3 witness: the table was built from a day with a bucket of three or more
\* observations, the last differing from the first and an intermediate one
\* differing from the last.
C3_Witness ==
    /\ op = "construct_OFI_TFI_dataframe"
    /\ \E k \in 0..BucketOf(DeltaT) :
          /\ Cardinality(QuoteRowsIn(k)) >= 3
          /\ MidTicks(FirstIn(k)) # MidTicks(LastIn(k))
          /\ \E i \in QuoteRowsIn(k) :
                /\ FirstIn(k) < i /\ i < LastIn(k)
                /\ MidTicks(i) # MidTicks(LastIn(k))

\* --------------------------------- signed volume (get_signed_amount_traded)
\* C4: every row's signed amount has the magnitude of the row's amount, is
\* +amount for a 'buy' row and -amount for a 'sell' row.
C4_SignFollowsSide ==
    op = "get_signed_amount_traded" =>
        /\ Len(ret) = Len(trades)
        /\ \A i \in 1..Len(trades) :
              /\ ret[i].d = 1
              /\ Abs(ret[i].n) = trades[i].amount
              /\ trades[i].side = "buy" => ret[i].n >= 0
              /\ trades[i].side = "sell" => ret[i].n <= 0

\* C4 witness: the function has run on a table with a buy row and a sell row
\* of non-zero amounts.
C4_Witness ==
    /\ op = "get_signed_amount_traded"
    /\ \E i, j \in 1..Len(trades) :
          /\ trades[i].side = "buy" /\ trades[i].amount > 0 /\ ret[i].n > 0
          /\ trades[j].side = "sell" /\ trades[j].amount > 0 /\ ret[j].n < 0

\* ------------------------------------------------ multi-day run (output_df)
\* the dates of the inclusive range of the call, as day numbers
RangeDays == strptime(args.start_date)..strptime(args.end_date)
Succeeded == {o \in RangeDays : days[strftime(o)].error = "none"}
\* the interval rows of the dates of the range whose table was built
ExpectedRows == {r \in [date : DateStrs, bucket : 1..MaxDayRows] :
                    strptime(r.date) \in Succeeded /\ r.bucket <= days[r.date].rows}
RowBefore(r, q) ==
    \/ strptime(r.date) < strptime(q.date)
    \/ (r.date = q.date /\ r.bucket < q.bucket)

\* C6: a call of output_df over a non-empty inclusive range attempts every
\* date of the range once in calendar order, does not raise whatever dates
\* fail, and returns the tables of the dates that succeeded, each once, in
\* date order.
C6_FailuresNeverAbort ==
    (op = "output_df" /\ RangeDays # {}) =>
        /\ Len(ret.printed) = Cardinality(RangeDays)
        /\ \A i \in 1..Len(ret.printed) :
              strptime(ret.printed[i].date) = strptime(args.start_date) + i - 1
        /\ ret.raised = "none"
        /\ {ret.value[i] : i \in 1..Len(ret.value)} = ExpectedRows
        /\ \A i, j \in 1..Len(ret.value) : i < j => RowBefore(ret.value[i], ret.value[j])

\* C7: when output_df(D1, D3) returns a table, then for every D2 with
\* D1 <= D2 < D3 the calls output_df(D1, D2) and output_df(D2+1, D3) return
\* tables too and the first followed by the second is that table.
C7_RangeSplits ==
    (op = "output_df" /\ ret.raised = "none") =>
        \A o \in RangeDays \ {strptime(args.end_date)} :
            LET first == output_df(days, args.start_date, strftime(o))
                second == output_df(days, strftime(o + 1), args.end_date)
            IN  /\ first.raised = "none"
                /\ second.raised = "none"
                /\ first.value \o second.value = ret.value

\* ------------------------------------------ depth run (get_all_avg_depths)
\* the dates of the range whose loading or depth computation fails
Failing == {o \in RangeDays : days[strftime(o)].error # "none"}

\* C13: when loading or the depth computation fails for some date of the
\* range, get_all_avg_depths raises the error of the first such date and
\* returns no depth series, not even the depths of the dates before it.
C13_AnyFailureAborts ==
    (op = "get_all_avg_depths" /\ Failing # {}) =>
        /\ ret.raised = days[strftime(SetMin(Failing))].error
        /\ ret.value = <<>>

\* C13 witness: get_all_avg_depths was called on a range whose first date has
\* a quote table with depths to report and whose last date fails, and raised.
C13_Witness ==
    /\ op = "get_all_avg_depths"
    /\ Cardinality(RangeDays) >= 2
    /\ days[args.start_date].error = "none"
    /\ Len(DayDepths(args.start_date, days[args.start_date].quotes)) >= 1
    /\ Failing = {strptime(args.end_date)}
    /\ ret.raised = days[args.end_date].error
    /\ ret.value = <<>>

\* ------------------------------------------------------ report (finished_df)
\* C5: a call of finished_df whose end_date is not after its start_date
\* returns the null result and does not raise, whatever the state of the
\* precomputed files and whatever the windows' fits do.
C5_BadRangeNeverRaises ==
    (op = "finished_df" /\ strptime(args.end_date) <= strptime(args.start_date)) =>
        (ret.raised = "none" /\ ret.none)

\* the regression pass of the call: a window's fit fails, or the windows are
\* all fitted and the named predictor is not among a fit's parameters
Windows == files.signal.windows
FilesPresent == files.signal.present /\ files.depth.present
FitFails == \E i \in 1..Len(Windows) : Windows[i].fit = "error"
PredictorAbsent == Len(Windows) > 0 /\ args.Flow_imbalance \notin {"Intercept", "OFI"}

\* C11: when finished_df finds its files and the fit of some window fails, or
\* the named predictor is absent from a window's fitted parameters, the call
\* raises (the fit's error, else the lookup's KeyError) and returns neither a
\* report nor the null result, however many windows before it were fitted.
C11_FitFailureAborts ==
    (op = "finished_df" /\ FilesPresent /\ (FitFails \/ PredictorAbsent)) =>
        /\ ret.raised = (IF FitFails THEN "ValueError" ELSE "KeyError")
        /\ ret.value = <<>>
        /\ ~ret.none

\* C11 witness: finished_df was called with a valid range and the default
\* predictor on files whose first window is fitted and whose last is not, and
\* raised.
C11_Witness ==
    /\ op = "finished_df" /\ FilesPresent
    /\ strptime(args.end_date) > strptime(args.start_date)
    /\ args.Flow_imbalance = "OFI"
    /\ Len(Windows) >= 2
    /\ Windows[1].fit = "ok" /\ Windows[Len(Windows)].fit = "error"
    /\ ret.raised = "ValueError"

\* ------------------------------------------------ alignment (create_dataframe)
\* the half-hour grid of the call: every slot from the depth series' first to
\* its last
Grid == SetMin(DOMAIN args.depth_series)..SetMax(DOMAIN args.depth_series)
GridAt(k) == SetMin(DOMAIN args.depth_series) + k - 1
\* the slots that the row at slot t holds the slope and the depth of
FittedOn(k) == files.signal.windows[k].window

ReportRows == 1..Len(beta_D_data)
Labels == {TimeOfDay(i - 1) : i \in ReportRows}
ReportBeta(i) == beta_D_data[i].beta_coef
ReportDepth(i) == beta_D_data[i].avg_depth
\* the number of non-missing values a label has in a column
BetaCount(l) == Cardinality({i \in ReportRows : TimeOfDay(i - 1) = l /\ ~IsNaN(ReportBeta(i))})
DepthCount(l) == Cardinality({i \in ReportRows : TimeOfDay(i - 1) = l /\ ~IsNaN(ReportDepth(i))})
\* the column's global mean is a number other than 0
HasBeta ==
    LET g == MeanOver([i \in ReportRows |-> ReportBeta(i)], ReportRows) IN IsFinite(g) /\ g.n # 0
HasDepth ==
    LET g == MeanOver([i \in ReportRows |-> ReportDepth(i)], ReportRows) IN IsFinite(g) /\ g.n # 0
\* the mean over the labels of a normalized series is 1
MeanIsOne(normalized) == FEq(MeanOver(normalized, DOMAIN normalized), Num(1))

\* C10 (as stated): for every report with a non-zero global mean, the mean over
\* the labels of normalized_beta is 1, and likewise normalized_depth, also when
\* the labels differ in their number of rows or values are missing.
C10_MeanOfNormalizedIsOne ==
    op = "get_graph" =>
        /\ HasBeta => MeanIsOne(ret.normalized_beta)
        /\ HasDepth => MeanIsOne(ret.normalized_depth)

\* C10 (amended): the mean over the labels of normalized_beta is 1 for every
\* report with a non-zero global mean beta in which all labels have the same
\* number of non-missing beta values; likewise normalized_depth with the
\* depth values.
C10_MeanIsOneForEqualCounts ==
    op = "get_graph" =>
        /\ (HasBeta /\ \A l, m \in Labels : BetaCount(l) = BetaCount(m))
              => MeanIsOne(ret.normalized_beta)
        /\ (HasDepth /\ \A l, m \in Labels : DepthCount(l) = DepthCount(m))
              => MeanIsOne(ret.normalized_depth)

\* C10 witness: get_graph has run on a report with two labels or more, a
\* missing beta, the same number of betas under every label, betas that
\* differ between labels, and a global depth mean other than the beta one.
C10_Witness ==
    /\ op = "get_graph"
    /\ Cardinality(Labels) >= 2
    /\ \E i \in ReportRows : IsNaN(ReportBeta(i))
    /\ HasBeta /\ \A l, m \in Labels : BetaCount(l) = BetaCount(m)
    /\ \E i, j \in ReportRows : ~IsNaN(ReportBeta(i)) /\ ~IsNaN(ReportBeta(j)) /\ ReportBeta(i) # ReportBeta(j)
    /\ \A i \in ReportRows : ~IsNaN(ReportDepth(i)) /\ ReportDepth(i) = Num(1)
    /\ MeanIsOne(ret.normalized_beta)

====
